---- MODULE Spec2Model ----
(***************************************************************************)
(* Model of jira_user_manager.py: the menu loop of main(), the paginated   *)
(* fetch of inactive users, the persistence of the list in                 *)
(* non_active_users.json and the confirmed bulk deletion.                  *)
(*                                                                         *)
(* One step of the model is one blocking interaction of the program: a     *)
(* menu input, one HTTP request together with the handling of its          *)
(* response, or one confirmation prompt.                                   *)
(***************************************************************************)
EXTENDS Integers, Sequences, FiniteSets, TLC

(***************************************************************************)
(* Python values.  A dict key that is not there reads as Missing; the      *)
(* value None is what dict.get returns for it and what JSON null loads as. *)
(***************************************************************************)
Missing == "<missing>"
None == "None"
PyTrue == "True"
PyFalse == "False"
\* The file system: whether non_active_users.json exists, and its content.
NoFile == [exists |-> FALSE, content |-> <<>>]
FileOf(list) == [exists |-> TRUE, content |-> list]
NoInput == <<"<", ">">>

\* dict.get(key): None when the key is not there.
Get(v) == IF v = Missing THEN None ELSE v

\* dict.get(key, default)
GetOr(v, default) == IF v = Missing THEN default ELSE v

\* Python truth value of the values that occur here.
Truthy(v) == v \notin {PyFalse, None, ""}

(***************************************************************************)
(* Bounds of the model and constants of the program.                       *)
(***************************************************************************)
\* The largest remote user list.
MaxUsers == 100

\* max_results = 50
max_results == 50

\* The remote lists: around every page boundary up to MaxUsers.
UserCounts == {n \in 0..MaxUsers : n % max_results \in {0, 1, max_results - 1}}

\* The positions of the remote list whose record is chosen freely; every
\* other position holds an active account.
Probes == {2, 50, 51}

\* What a chosen record looks like: active, accountType, and whether it
\* has an accountId.
Kinds ==
  { [active |-> PyFalse, accountType |-> "atlassian", hasId |-> TRUE],
    [active |-> PyTrue, accountType |-> "atlassian", hasId |-> TRUE],
    [active |-> PyFalse, accountType |-> "former", hasId |-> TRUE],
    [active |-> PyTrue, accountType |-> "former", hasId |-> TRUE],
    [active |-> Missing, accountType |-> "atlassian", hasId |-> TRUE],
    [active |-> PyFalse, accountType |-> Missing, hasId |-> FALSE] }

ActiveKind == [active |-> PyTrue, accountType |-> "atlassian", hasId |-> TRUE]

\* A user object of the response body of GET /rest/api/3/users.
UserObject(pos, kind) ==
  [ accountId |-> IF kind.hasId THEN "id" \o ToString(pos) ELSE Missing,
    displayName |-> "user" \o ToString(pos),
    emailAddress |-> Missing,
    active |-> kind.active,
    accountType |-> kind.accountType ]

\* The HTTP status codes of a GET and of a DELETE, and a transport error.
GetStatuses == {200, 201, 500}
DeleteStatuses == {204, 200}
TransportError == -1

(***************************************************************************)
(* Console input: a string is a sequence of characters.                    *)
(***************************************************************************)
Whitespace == {" ", "\t"}

RECURSIVE Strip(_)
\* str.strip()
Strip(s) ==
  IF s = <<>> THEN <<>>
  ELSE IF Head(s) \in Whitespace THEN Strip(Tail(s))
  ELSE IF s[Len(s)] \in Whitespace THEN Strip(SubSeq(s, 1, Len(s) - 1))
  ELSE s

UpperCase == <<"D", "E", "L", "T", "Y", "N", "S">>
LowerCase == <<"d", "e", "l", "t", "y", "n", "s">>

LowerChar(c) ==
  IF \E i \in 1..Len(UpperCase) : UpperCase[i] = c
  THEN LowerCase[CHOOSE i \in 1..Len(UpperCase) : UpperCase[i] = c]
  ELSE c

\* str.lower()
Lower(s) == [i \in 1..Len(s) |-> LowerChar(s[i])]

DELETE == <<"D", "E", "L", "E", "T", "E">>
y == <<"y">>

\* What the operator may type at the first and at the second prompt.
ConfirmInputs ==
  { DELETE, <<" ">> \o DELETE \o <<" ">>,
    <<"d", "e", "l", "e", "t", "e">>, <<>> }
FinalInputs ==
  { y, <<"Y", " ">>, <<"n">>, <<"y", "e", "s">>, <<>> }

VARIABLES
  pc,                    \* where main() is
  file,                  \* non_active_users.json: NoFile or a list
  remoteCount,           \* the number of users of the remote service
  probeKind,             \* the kind of the record at each probe position
  start_at,              \* fetch: the next startAt
  non_active_users,      \* fetch: the accumulator
  requests,              \* fetch: the startAt of every GET issued
  received,              \* fetch: the size of every page received with 200
  examined,              \* fetch: the users the filter loop looked at
  fetchEnd,              \* fetch: how the last fetch ended
  returned,              \* fetch: what the last fetch returned
  removeFailed,          \* choice 1: os.remove raised
  users,                 \* delete: the list loaded from the file
  idx,                   \* delete: the number of records iterated
  successful_deletions,
  failed_deletions,
  confirm,               \* delete: the raw input at the first prompt
  final_confirm,         \* delete: the raw input at the second prompt
  deleteCalls,           \* delete: the accountId of every DELETE issued
  outcomes,              \* delete: per record iterated, whether delete_user
                         \* was called, the outcome of its DELETE (a status
                         \* or TransportError) and its result
  summary,               \* delete: the printed summary
  notFound               \* delete: "File ... not found!" was printed

vars ==
  << pc, file, remoteCount, probeKind, start_at, non_active_users, requests,
     received, examined, fetchEnd, returned, removeFailed, users, idx,
     successful_deletions, failed_deletions, confirm, final_confirm,
     deleteCalls, outcomes, summary, notFound >>

fetchVars ==
  << start_at, non_active_users, requests, received, examined, fetchEnd,
     returned, removeFailed >>

deleteVars ==
  << users, idx, successful_deletions, failed_deletions, confirm,
     final_confirm, deleteCalls, outcomes, summary, notFound >>

remoteVars == << remoteCount, probeKind >>

NoSummary == [successful |-> -1, failed |-> -1, total |-> -1]

(***************************************************************************)
(* The remote service.                                                     *)
(***************************************************************************)
RemoteUser(pos) ==
  UserObject(pos, IF pos \in Probes THEN probeKind[pos] ELSE ActiveKind)

\* The body of GET /rest/api/3/users?startAt=s&maxResults=m
Page(s, m) ==
  LET n == IF remoteCount - s < 0 THEN 0
           ELSE IF remoteCount - s > m THEN m ELSE remoteCount - s
  IN [j \in 1..n |-> RemoteUser(s + j)]

\* A file left by an earlier run of the program.
StaleFile ==
  FileOf(<< [ accountId |-> "id900", displayName |-> "user900",
              emailAddress |-> None, active |-> PyFalse,
              accountType |-> "atlassian" ] >>)

(***************************************************************************)
(* fetch_non_active_users                                                  *)
(***************************************************************************)
\* The filter without the exclusion of deleted accounts.
is_inactive_NoFormerCheck(user) == ~Truthy(GetOr(user.active, PyTrue))

is_inactive(user) ==
  /\ ~Truthy(GetOr(user.active, PyTrue))
  /\ Get(user.accountType) # "former"

\* The dict appended for an inactive user.
Projected(user) ==
  [ accountId |-> Get(user.accountId),
    displayName |-> Get(user.displayName),
    emailAddress |-> Get(user.emailAddress),
    active |-> Get(user.active),
    accountType |-> Get(user.accountType) ]

RECURSIVE FilterPage(_, _)
\* The for loop over one page: the accumulator after it.
FilterPage(acc, page) ==
  IF page = <<>> THEN acc
  ELSE FilterPage(IF is_inactive(Head(page))
                  THEN Append(acc, Projected(Head(page)))
                  ELSE acc,
                  Tail(page))

\* The users the for loop iterates over.
Iterated(page) == [j \in 1..Len(page) |-> page[j].displayName]

\* The offset advanced by one too few.
NextStartAt_OffByOne(s) == s + max_results - 1

\* start_at += max_results
NextStartAt(s) == s + max_results

\* The loop going on after every page that is not empty.
MorePages_UntilEmpty(page) == Len(page) > 0

\* The loop goes on after a page that was processed.
MorePages(page) == ~(Len(page) < max_results)

\* The response status that lets the loop read the body.
StatusOk(status) == status = 200

\* A fetch that gives up its partial result on an error.
ReturnedOnError_Nothing(acc) == <<>>

\* What fetch returns when the loop ends on an error.
ReturnedOnError(acc) == acc

\* A file opened for appending.
FileAfterFetch_Append(old, list) ==
  IF list # <<>> THEN FileOf(old.content \o list) ELSE old

\* main(): what the file holds after the fetch returned `list`.
FileAfterFetch(old, list) == IF list # <<>> THEN FileOf(list) ELSE old

Init ==
  /\ pc = "menu"
  /\ file \in {NoFile, StaleFile}
  /\ remoteCount \in UserCounts
  /\ probeKind \in [Probes -> Kinds]
  /\ start_at = 0
  /\ non_active_users = <<>>
  /\ requests = <<>>
  /\ received = <<>>
  /\ examined = <<>>
  /\ fetchEnd = "none"
  /\ returned = <<>>
  /\ removeFailed = FALSE
  /\ users = <<>>
  /\ idx = 0
  /\ successful_deletions = 0
  /\ failed_deletions = 0
  /\ confirm = NoInput
  /\ final_confirm = NoInput
  /\ deleteCalls = <<>>
  /\ outcomes = <<>>
  /\ summary = NoSummary
  /\ notFound = FALSE

\* Menu choice 1 up to the first request: remove the file, enter fetch.
Choice1 ==
  /\ pc = "menu"
  /\ pc' = "fetching"
  /\ \E raised \in (IF ~file.exists THEN {FALSE} ELSE {FALSE, TRUE}) :
       /\ removeFailed' = raised
       /\ file' = IF raised THEN file ELSE NoFile
  /\ start_at' = 0
  /\ non_active_users' = <<>>
  /\ requests' = <<>>
  /\ received' = <<>>
  /\ examined' = <<>>
  /\ fetchEnd' = "none"
  /\ returned' = <<>>
  /\ users' = <<>>
  /\ idx' = 0
  /\ successful_deletions' = 0
  /\ failed_deletions' = 0
  /\ confirm' = NoInput
  /\ final_confirm' = NoInput
  /\ deleteCalls' = <<>>
  /\ outcomes' = <<>>
  /\ summary' = NoSummary
  /\ notFound' = FALSE
  /\ UNCHANGED remoteVars

\* The end of fetch and the rest of menu choice 1.
FetchReturns(list, how) ==
  /\ returned' = list
  /\ fetchEnd' = how
  /\ file' = FileAfterFetch(file, list)
  /\ pc' = "menu"

\* One iteration of the while loop: one GET and the handling of its response.
FetchPage ==
  /\ pc = "fetching"
  /\ requests' = Append(requests, start_at)
  /\ \E status \in GetStatuses \cup {TransportError} :
       IF status = TransportError
       THEN /\ FetchReturns(ReturnedOnError(non_active_users), "exception")
            /\ UNCHANGED << start_at, non_active_users, received, examined >>
       ELSE IF ~StatusOk(status)
       THEN /\ FetchReturns(ReturnedOnError(non_active_users), "status")
            /\ UNCHANGED << start_at, non_active_users, received, examined >>
       ELSE LET page == Page(start_at, max_results) IN
            /\ received' = Append(received, Len(page))
            /\ IF page = <<>>
               THEN /\ FetchReturns(non_active_users, "complete")
                    /\ UNCHANGED << start_at, non_active_users, examined >>
               ELSE /\ non_active_users' = FilterPage(non_active_users, page)
                    /\ examined' = examined \o Iterated(page)
                    /\ start_at' = NextStartAt(start_at)
                    /\ IF MorePages(page)
                       THEN UNCHANGED << pc, file, returned, fetchEnd >>
                       ELSE FetchReturns(non_active_users', "complete")
  /\ UNCHANGED << remoteVars, removeFailed, deleteVars >>

(***************************************************************************)
(* delete_user and delete_users_from_file                                  *)
(***************************************************************************)
\* Every 2xx status taken for a success.
delete_user_Any2xx(outcome) == outcome \in 200..299

\* delete_user: the result for the outcome of its one DELETE call.
delete_user(outcome) == outcome # TransportError /\ outcome = 204

\* The first gate: confirm = input(...).strip(); confirm != 'DELETE' aborts.
ConfirmPassed(typed) == Strip(typed) = DELETE

\* A second gate that only a no closes.
FinalConfirmPassed_UnlessNo(typed) ==
  Lower(Strip(typed)) \notin {<<"n">>, <<>>}

\* The second gate: input(...).strip().lower() != 'y' aborts.
FinalConfirmPassed(typed) == Lower(Strip(typed)) = y

\* `if not account_id`: the record is skipped.
Skipped(user) == ~Truthy(Get(user.accountId))

\* A failure that is not counted.
CountFailure_Forgotten(failed) == failed

\* failed_deletions after one record that was skipped or whose delete failed.
CountFailure(failed) == failed + 1

\* successful_deletions after one record whose delete succeeded.
CountSuccess(successful) == successful + 1

\* A loop that breaks at the first failure.
NextRecord_FailFast(i, ok) == IF ok THEN i + 1 ELSE Len(users)

\* The for loop goes on to the next record whatever happened to this one.
NextRecord(i, ok) == i + 1

\* A missing file taken for an empty list.
AfterLoad_Always(f) == "confirm"

\* Where main() is after the file was opened, or was not there.
AfterLoad(f) == IF f.exists THEN "confirm" ELSE "menu"

\* What is recorded of a record that got no delete call.
NotCalled == [called |-> FALSE, status |-> 0, result |-> FALSE]

\* The text printed after the loop.
Summary == [successful |-> successful_deletions', failed |-> failed_deletions',
            total |-> Len(users)]

\* Menu choice 3 up to the first prompt: load the file, print the preview.
Choice3 ==
  /\ pc = "menu"
  /\ pc' = AfterLoad(file)
  /\ notFound' = ~file.exists
  /\ users' = file.content
  /\ idx' = 0
  /\ successful_deletions' = 0
  /\ failed_deletions' = 0
  /\ confirm' = NoInput
  /\ final_confirm' = NoInput
  /\ deleteCalls' = <<>>
  /\ outcomes' = <<>>
  /\ summary' = NoSummary
  /\ UNCHANGED << file, remoteVars, fetchVars >>

\* The operator answers "Type 'DELETE' to confirm deletion: ".
Confirm ==
  /\ pc = "confirm"
  /\ \E typed \in ConfirmInputs :
       /\ confirm' = typed
       /\ pc' = IF ConfirmPassed(typed) THEN "final_confirm" ELSE "menu"
  /\ UNCHANGED << file, remoteVars, fetchVars, users, idx,
                  successful_deletions, failed_deletions, final_confirm,
                  deleteCalls, outcomes, summary, notFound >>

\* The operator answers "Are you absolutely sure ...? [y/N]: ".
FinalConfirm ==
  /\ pc = "final_confirm"
  /\ \E typed \in FinalInputs :
       /\ final_confirm' = typed
       /\ pc' = IF FinalConfirmPassed(typed) THEN "deleting" ELSE "menu"
  /\ UNCHANGED << file, remoteVars, fetchVars, users, idx,
                  successful_deletions, failed_deletions, confirm,
                  deleteCalls, outcomes, summary, notFound >>

\* One iteration of the for loop; after the last one, the summary.
DeleteNext ==
  /\ pc = "deleting"
  /\ idx < Len(users)
  /\ LET user == users[idx + 1] IN
       IF Skipped(user)
       THEN /\ failed_deletions' = CountFailure(failed_deletions)
            /\ outcomes' = Append(outcomes, NotCalled)
            /\ idx' = NextRecord(idx, FALSE)
            /\ UNCHANGED << successful_deletions, deleteCalls >>
       ELSE \E outcome \in DeleteStatuses \cup {TransportError} :
              /\ deleteCalls' = Append(deleteCalls, user.accountId)
              /\ outcomes' = Append(outcomes,
                   [called |-> TRUE, status |-> outcome,
                    result |-> delete_user(outcome)])
              /\ idx' = NextRecord(idx, delete_user(outcome))
              /\ IF delete_user(outcome)
                 THEN /\ successful_deletions' =
                           CountSuccess(successful_deletions)
                      /\ UNCHANGED failed_deletions
                 ELSE /\ failed_deletions' = CountFailure(failed_deletions)
                      /\ UNCHANGED successful_deletions
  /\ IF idx' >= Len(users)
     THEN pc' = "menu" /\ summary' = Summary
     ELSE UNCHANGED << pc, summary >>
  /\ UNCHANGED << file, remoteVars, fetchVars, users, confirm, final_confirm,
                  notFound >>

\* Menu choice 4: main() returns and the process ends; what it held in
\* memory is gone, the file stays.
Choice4 ==
  /\ pc = "menu"
  /\ pc' = "exit"
  /\ start_at' = 0
  /\ non_active_users' = <<>>
  /\ requests' = <<>>
  /\ received' = <<>>
  /\ examined' = <<>>
  /\ fetchEnd' = "none"
  /\ returned' = <<>>
  /\ removeFailed' = FALSE
  /\ users' = <<>>
  /\ idx' = 0
  /\ successful_deletions' = 0
  /\ failed_deletions' = 0
  /\ confirm' = NoInput
  /\ final_confirm' = NoInput
  /\ deleteCalls' = <<>>
  /\ outcomes' = <<>>
  /\ summary' = NoSummary
  /\ notFound' = FALSE
  /\ UNCHANGED << file, remoteVars >>

Next ==
  \/ Choice1
  \/ FetchPage
  \/ Choice3
  \/ Confirm
  \/ FinalConfirm
  \/ DeleteNext
  \/ Choice4

Spec == Init /\ [][Next]_vars
(***************************************************************************)
(* Vocabulary of the properties.                                           *)
(***************************************************************************)
RECURSIVE Concat(_)
Concat(pages) == IF pages = <<>> THEN <<>> ELSE Head(pages) \o Concat(Tail(pages))

\* Every user record the running or the last fetch received, in order.
ReceivedUsers ==
  Concat([k \in 1..Len(received) |-> Page(requests[k], 50)])

\* Inactive as the specification words it.
SaidInactive(u) == u.active = PyFalse /\ u.accountType # "former"

\* A fetch has returned and none is running.
FetchReturned == pc # "fetching" /\ fetchEnd # "none"

\* The accumulator holds exactly the received records that are inactive,
\* in the order received, each with its accountId.
HoldsInactiveOf(acc, recs) ==
  LET want == SelectSeq(recs, SaidInactive) IN
  /\ Len(acc) = Len(want)
  /\ \A i \in 1..Len(acc) :
       /\ acc[i].displayName = want[i].displayName
       /\ acc[i].accountId = Get(want[i].accountId)

\* C1: a received record is in the list fetch_non_active_users accumulates
\* and returns iff active == false and accountType != 'former'; no former
\* and no active record is in it; the records in it keep their accountId
\* and the order in which they were received.
C1_Classification ==
  /\ HoldsInactiveOf(non_active_users, ReceivedUsers)
  /\ \A i \in 1..Len(non_active_users) :
       /\ non_active_users[i].accountType # "former"
       /\ non_active_users[i].active # PyTrue
  /\ FetchReturned => returned = non_active_users

\* C1: a fetch returned two inactive records of one page, with a former and
\* an active record among the records it received.
C1_Witness ==
  /\ FetchReturned
  /\ Len(returned) >= 2
  /\ returned[1].displayName = "user2"
  /\ returned[2].displayName = "user50"
  /\ \E i \in 1..Len(ReceivedUsers) : ReceivedUsers[i].accountType = "former"
  /\ \E i \in 1..Len(ReceivedUsers) : ReceivedUsers[i].active = PyTrue

\* C2: the requests carry startAt 0, 50, 100, ...; every request but the
\* first follows a page of exactly 50 records; and a fetch whose responses
\* were all 200 ends on a page of fewer than 50 records, with no request
\* after it.
C2_Pagination ==
  /\ \A i \in 1..Len(requests) : requests[i] = 50 * (i - 1)
  /\ \A i \in 1..(Len(requests) - 1) :
       i <= Len(received) /\ received[i] = 50
  /\ (pc = "fetching" /\ requests # <<>>) =>
       /\ Len(received) = Len(requests)
       /\ received[Len(received)] = 50
  /\ (FetchReturned /\ Len(received) = Len(requests)) =>
       /\ received[Len(received)] < 50
       /\ fetchEnd = "complete"

\* C2: a fetch ended after a full page followed by a short one.
C2_Witness ==
  /\ FetchReturned
  /\ received = <<50, 49>>
  /\ requests = <<0, 50>>

\* C2: a fetch ended on an empty page.
C2_WitnessEmptyPage ==
  /\ FetchReturned
  /\ received = <<50, 50, 0>>

\* C3: every delete_user call issued one DELETE and returned True iff the
\* status of the response was 204; on every other status and on a transport
\* error it returned False, and the batch went on.
C3_DeleteUser ==
  /\ Len(deleteCalls) = Cardinality({i \in 1..Len(outcomes) : outcomes[i].called})
  /\ \A i \in 1..Len(outcomes) :
       outcomes[i].called =>
         /\ outcomes[i].result \in BOOLEAN
         /\ outcomes[i].result <=> (outcomes[i].status = 204)
  /\ Len(outcomes) = idx
  /\ pc \in {"menu", "fetching", "confirm", "final_confirm", "deleting", "exit"}

\* C3: one call answered 204, one answered 200 and one raised.
C3_Witness ==
  /\ \E i \in 1..Len(outcomes) : outcomes[i].called /\ outcomes[i].status = 204
  /\ \E i \in 1..Len(outcomes) :
       outcomes[i].called /\ outcomes[i].status = 200 /\ ~outcomes[i].result
  /\ \E i \in 1..Len(outcomes) :
       outcomes[i].called /\ outcomes[i].status = TransportError
         /\ ~outcomes[i].result

\* The typed text is `literal` with blanks around it.
IsPadded(typed, literal) ==
  \E a \in 0..Len(typed) : \E b \in 0..(Len(typed) - a) :
    /\ \A i \in 1..a : typed[i] \in Whitespace
    /\ \A i \in (Len(typed) - b + 1)..Len(typed) : typed[i] \in Whitespace
    /\ SubSeq(typed, a + 1, Len(typed) - b) = literal

FirstGateOpen == IsPadded(confirm, DELETE)
SecondGateOpen == IsPadded(final_confirm, <<"y">>) \/ IsPadded(final_confirm, <<"Y">>)
BatchStarted == pc = "deleting" \/ deleteCalls # <<>> \/ summary # NoSummary

\* C4 as stated: a delete call is issued only after the input at the first
\* gate was exactly DELETE and the input at the second gate exactly y.
C4_ExactInputs ==
  BatchStarted => (confirm = DELETE /\ final_confirm = y)

\* C4 as amended: a delete call is issued only after both gates were
\* passed in order, the first with DELETE once surrounding whitespace is
\* stripped, the second with y once whitespace is stripped and the case is
\* lowered; any other input at either gate ends the batch with no delete
\* call.
C4_Gates ==
  /\ BatchStarted => (FirstGateOpen /\ SecondGateOpen)
  /\ (pc = "final_confirm" \/ final_confirm # NoInput) => FirstGateOpen
  /\ (confirm # NoInput /\ ~FirstGateOpen) =>
       /\ pc = "menu"
       /\ final_confirm = NoInput
       /\ ~BatchStarted
  /\ (final_confirm # NoInput /\ ~SecondGateOpen) =>
       /\ pc = "menu"
       /\ ~BatchStarted

\* C4: a batch issued a delete call after both gates; and a batch was
\* ended at the second gate.
C4_Witness ==
  /\ deleteCalls # <<>>
  /\ confirm = DELETE
  /\ final_confirm = y

C4_WitnessAbort ==
  /\ FirstGateOpen
  /\ final_confirm = <<"y", "e", "s">>
  /\ pc = "menu"
  /\ users # <<>>

\* The records iterated so far whose delete call was answered 204.
Answered204 ==
  {i \in 1..Len(outcomes) : outcomes[i].called /\ outcomes[i].status = 204}

\* C5: during the loop successes + failures is the number of records
\* processed; the summary gives the number of records answered 204 as
\* successes, the number of all other records as failures, and the number
\* of records of the file as total.
C5_Summary ==
  /\ successful_deletions + failed_deletions = idx
  /\ successful_deletions = Cardinality(Answered204)
  /\ failed_deletions = idx - Cardinality(Answered204)
  /\ summary # NoSummary =>
       /\ idx = Len(users)
       /\ summary.total = Len(users)
       /\ summary.successful = Cardinality(Answered204)
       /\ summary.failed = Len(users) - Cardinality(Answered204)
       /\ summary.successful + summary.failed = summary.total

\* C5: a summary over three records: one deleted, one refused, one
\* without accountId.
C5_Witness ==
  /\ summary = [successful |-> 1, failed |-> 2, total |-> 3]
  /\ \E i \in 1..3 : ~outcomes[i].called
  /\ \E i \in 1..3 : outcomes[i].called /\ outcomes[i].status = 200

\* The records of the list that have an accountId, in order.
WithId(list) == SelectSeq(list, LAMBDA u : u.accountId # None)

\* C6: a fetch that ended on a non-200 status or on a network error made
\* that request its last one and returned the inactive records of the
\* pages received before it, in the order received; main() went on.
C6_PartialResults ==
  (FetchReturned /\ fetchEnd \in {"status", "exception"}) =>
    /\ Len(requests) = Len(received) + 1
    /\ HoldsInactiveOf(returned, ReceivedUsers)
    /\ pc # "fetching"

\* C6: the second request failed after a first page with an inactive user.
C6_Witness ==
  /\ FetchReturned
  /\ fetchEnd = "exception"
  /\ requests = <<0, 50>>
  /\ returned # <<>>

C6_WitnessStatus ==
  /\ FetchReturned
  /\ fetchEnd = "status"
  /\ Len(requests) = 3
  /\ Len(returned) = 2

\* C7 as stated: after every completed fetch choice the file exists and
\* holds exactly the list this fetch accumulated.
C7_FileIsLastFetch ==
  FetchReturned => file = FileOf(returned)

\* C7 as amended: after a completed fetch choice that accumulated a list
\* that is not empty, the file holds exactly that list, and a delete choice
\* loads it; after one that accumulated nothing, no file was written: the
\* file is gone, or, when its removal failed, still there from before.
C7_FileAfterFetch ==
  /\ [](FetchReturned =>
          /\ returned # <<>> =>
               /\ file = FileOf(returned)
               /\ pc \in {"confirm", "final_confirm", "deleting"} =>
                    users = returned
          /\ (returned = <<>> /\ ~removeFailed) => file = NoFile
          /\ (returned = <<>> /\ removeFailed) => file.exists)
  /\ [][(pc = "fetching" /\ pc' = "menu" /\ returned' = <<>>) =>
          file' = file]_vars

\* C7: a fetch replaced a file that could not be removed; a fetch that
\* found nothing left no file.
C7_Witness ==
  /\ FetchReturned
  /\ removeFailed
  /\ Len(returned) = 2
  /\ file = FileOf(returned)

C7_WitnessEmpty ==
  /\ FetchReturned
  /\ returned = <<>>
  /\ fetchEnd = "complete"
  /\ file = NoFile

\* C8: the loop takes the records in file order whatever the outcomes: the
\* delete calls so far are the accountIds of the records with an accountId
\* among those iterated, one call each; a record without accountId got no
\* call and counts as a failure; the batch ends only after the last record.
C8_NoFailFast ==
  /\ idx <= Len(users)
  /\ Len(outcomes) = idx
  /\ deleteCalls =
       [i \in 1..Len(WithId(SubSeq(users, 1, idx))) |->
          WithId(SubSeq(users, 1, idx))[i].accountId]
  /\ \A i \in 1..Len(outcomes) :
       outcomes[i].called <=> users[i].accountId # None
  /\ failed_deletions >=
       Cardinality({i \in 1..Len(outcomes) : ~outcomes[i].called})
  /\ pc = "deleting" => idx < Len(users)
  /\ summary # NoSummary => idx = Len(users)

\* C8: the third record got its delete call after the first call raised
\* and the second was refused.
C8_Witness ==
  /\ Len(deleteCalls) = 3
  /\ outcomes[1].status = TransportError
  /\ outcomes[2].status = 200
  /\ outcomes[3].status = 204

\* C9: a delete choice that finds no file reports it and does nothing
\* else: no prompt, no delete call, no file, and the menu comes next.
C9_MissingFile ==
  /\ [][(pc = "menu" /\ ~file.exists /\ pc' \notin {"fetching", "exit"}) =>
          /\ pc' = "menu"
          /\ notFound'
          /\ file' = NoFile
          /\ deleteCalls' = <<>>
          /\ confirm' = NoInput]_vars
  /\ [](notFound =>
          /\ pc = "menu"
          /\ file = NoFile
          /\ deleteCalls = <<>>
          /\ confirm = NoInput
          /\ final_confirm = NoInput
          /\ summary = NoSummary)

\* C9: the file is missing because the fetch choice removed it and found
\* nothing to save.
C9_Witness ==
  /\ notFound
  /\ FetchReturned
  /\ returned = <<>>
  /\ pc = "menu"

\* C10: a fetch over N users whose responses were all 200 ends after
\* N \div 50 + 1 requests with startAt 0, 50, ..., having examined every
\* user once and in order; while it runs it has made at most N \div 50
\* requests without error, and it ends only on a short or empty page, a
\* non-200 status or a network error.
C10_Termination ==
  /\ (FetchReturned /\ fetchEnd = "complete") =>
       /\ Len(requests) = (remoteCount \div 50) + 1
       /\ requests = [i \in 1..((remoteCount \div 50) + 1) |-> 50 * (i - 1)]
       /\ examined = [i \in 1..remoteCount |-> "user" \o ToString(i)]
       /\ received[Len(received)] < 50
  /\ pc = "fetching" => Len(requests) <= remoteCount \div 50
  /\ \A i \in 1..Len(examined) : examined[i] = "user" \o ToString(i)
  /\ FetchReturned => fetchEnd \in {"complete", "status", "exception"}

\* C10: 100 users: three requests, the last one answered by an empty page.
C10_Witness ==
  /\ FetchReturned
  /\ fetchEnd = "complete"
  /\ remoteCount = 100
  /\ requests = <<0, 50, 100>>
  /\ Len(examined) = 100
====
